---- MODULE Spec2Model ----
(***************************************************************************)
(* LRUMap (yovanoc/lru): a doubly linked list of Entry objects plus a      *)
(* key -> Entry index.  Entries are heap objects addressed by identifiers; *)
(* the links NEWER / OLDER are fields holding identifiers or Undefined.    *)
(***************************************************************************)
EXTENDS Integers, Sequences, FiniteSets, TLC

\* ---- bounds of the model ----
MaxKey == 4
MaxVal == 2
MaxLimit == 3
MaxAssignKey == 2
MaxAssignVal == 1
MaxAssignLimit == 2
MaxAssignLen == 3
MaxHeap == 4
MaxDebt == 0
MaxIterKey == 3
MaxIterLen == 3
MaxYield == 4

Keys == 1..MaxKey
Values == 1..MaxVal
Ids == 1..MaxHeap

\* JavaScript's undefined, for an entry reference, a key or a value
Undefined == 0

\* Number.MAX_VALUE stand-in: a float so large that subtracting 1 leaves it unchanged
MAX_VALUE == 1000000

VARIABLES heap, keymap, size, limit, oldest, newest, op, before, removed, it, touches

vars == <<heap, keymap, size, limit, oldest, newest, op, before, removed, it, touches>>

\* ---- Entry objects ----
Blank == [key |-> Undefined, value |-> Undefined, newer |-> Undefined, older |-> Undefined]

Entry(key, value) == [key |-> key, value |-> value, newer |-> Undefined, older |-> Undefined]

\* `new Entry`: an identifier no live object has
FreeId(h) == CHOOSE i \in Ids : h[i] = Blank /\ \A j \in Ids : h[j] = Blank => i <= j

NumFree(h) == Cardinality({i \in Ids : h[i] = Blank})

\* the LRUMap object as one record
This == [heap |-> heap, keymap |-> keymap, size |-> size, limit |-> limit,
         oldest |-> oldest, newest |-> newest]

\* ---- traversal from oldest along NEWER (forEach / toJSON / iterators) ----
RECURSIVE Chain(_, _, _)
Chain(h, entry, fuel) ==
  IF entry = Undefined \/ fuel = 0 THEN <<>>
  ELSE <<entry>> \o Chain(h, h[entry].newer, fuel - 1)

Pairs(h, ids) == [i \in 1..Len(ids) |-> <<h[ids[i]].key, h[ids[i]].value>>]

\* what [Symbol.iterator]() yields when run to its end: [key, value] arrays
Entries(c) == Pairs(c.heap, Chain(c.heap, c.oldest, MaxHeap + 1))

\* a slot of `new Array(this.size)` that the loop of toJSON never fills
Hole == [key |-> Undefined, value |-> Undefined]

\* toJSON: an array of this.size slots, filled from the oldest entry on with
\* {key, value} objects (the array grows when the list is longer than size)
toJSON(c) ==
  LET ids == Chain(c.heap, c.oldest, MaxHeap + 1)
      len == IF c.size > Len(ids) THEN c.size ELSE Len(ids)
  IN [i \in 1..len |-> IF i <= Len(ids)
                       THEN [key |-> c.heap[ids[i]].key, value |-> c.heap[ids[i]].value]
                       ELSE Hole]

\* forEach: the (value, key) arguments of the calls of `fun`, in call order
RECURSIVE forEachLoop(_, _, _)
forEachLoop(h, entry, fuel) ==
  IF entry = Undefined \/ fuel = 0 THEN <<>>
  ELSE <<<<h[entry].value, h[entry].key>>>> \o forEachLoop(h, h[entry].newer, fuel - 1)

forEach(c) == forEachLoop(c.heap, c.oldest, MaxHeap + 1)

KeySet(c) == {k \in Keys : c.keymap[k] # Undefined}

\* ---- private _markEntryAsUsed ----
\* variant: the head is not advanced when the oldest entry is the one used
markEntryAsUsed_keepOldest(c, entry) ==
  IF entry = c.newest THEN c
  ELSE
    LET c1 == IF c.heap[entry].newer # Undefined
              THEN [c EXCEPT !.heap[c.heap[entry].newer].older = c.heap[entry].older]
              ELSE c
        c2 == IF c1.heap[entry].older # Undefined
              THEN [c1 EXCEPT !.heap[c1.heap[entry].older].newer = c1.heap[entry].newer]
              ELSE c1
        c3 == [c2 EXCEPT !.heap[entry].newer = Undefined]
        c4 == [c3 EXCEPT !.heap[entry].older = c3.newest]
        c5 == IF c4.newest # Undefined
              THEN [c4 EXCEPT !.heap[c4.newest].newer = entry]
              ELSE c4
    IN [c5 EXCEPT !.newest = entry]

\* variant: the used entry keeps its link to the entry that was newer
markEntryAsUsed_keepNewer(c, entry) ==
  IF entry = c.newest THEN c
  ELSE
    LET c1 == IF c.heap[entry].newer # Undefined
              THEN LET a == IF entry = c.oldest
                            THEN [c EXCEPT !.oldest = c.heap[entry].newer]
                            ELSE c
                   IN [a EXCEPT !.heap[a.heap[entry].newer].older = a.heap[entry].older]
              ELSE c
        c2 == IF c1.heap[entry].older # Undefined
              THEN [c1 EXCEPT !.heap[c1.heap[entry].older].newer = c1.heap[entry].newer]
              ELSE c1
        c4 == [c2 EXCEPT !.heap[entry].older = c2.newest]
        c5 == IF c4.newest # Undefined
              THEN [c4 EXCEPT !.heap[c4.newest].newer = entry]
              ELSE c4
    IN [c5 EXCEPT !.newest = entry]

markEntryAsUsed(c, entry) ==
  IF entry = c.newest THEN c
  ELSE
    LET c1 == IF c.heap[entry].newer # Undefined
              THEN LET a == IF entry = c.oldest
                            THEN [c EXCEPT !.oldest = c.heap[entry].newer]
                            ELSE c
                   IN [a EXCEPT !.heap[a.heap[entry].newer].older = a.heap[entry].older]
              ELSE c
        c2 == IF c1.heap[entry].older # Undefined
              THEN [c1 EXCEPT !.heap[c1.heap[entry].older].newer = c1.heap[entry].newer]
              ELSE c1
        c3 == [c2 EXCEPT !.heap[entry].newer = Undefined]
        c4 == [c3 EXCEPT !.heap[entry].older = c3.newest]
        c5 == IF c4.newest # Undefined
              THEN [c4 EXCEPT !.heap[c4.newest].newer = entry]
              ELSE c4
    IN [c5 EXCEPT !.newest = entry]

\* ---- get ----
\* variant: the lookup does not register the use
get_peek(c, key) ==
  LET entry == c.keymap[key] IN
  IF entry = Undefined THEN [cache |-> c, ret |-> <<>>]
  ELSE [cache |-> c, ret |-> <<c.heap[entry].value>>]

get(c, key) ==
  LET entry == c.keymap[key] IN
  IF entry = Undefined THEN [cache |-> c, ret |-> <<>>]
  ELSE LET c1 == markEntryAsUsed(c, entry)
       IN [cache |-> c1, ret |-> <<c1.heap[entry].value>>]

\* ---- shift ----
\* variant: the purged entry stays in the index
shift_keepIndex(c) ==
  LET entry == c.oldest IN
  IF entry = Undefined THEN [cache |-> c, ret |-> <<>>]
  ELSE
    LET c1 == IF c.heap[c.oldest].newer # Undefined
              THEN LET a == [c EXCEPT !.oldest = c.heap[c.oldest].newer]
                   IN [a EXCEPT !.heap[a.oldest].older = Undefined]
              ELSE [c EXCEPT !.oldest = Undefined, !.newest = Undefined]
        c2 == [c1 EXCEPT !.heap[entry].newer = Undefined, !.heap[entry].older = Undefined]
        c4 == [c2 EXCEPT !.size = c2.size - 1]
    IN [cache |-> c4, ret |-> <<c4.heap[entry].key, c4.heap[entry].value>>]

\* variant: the new head keeps its link to the purged entry
shift_keepOlder(c) ==
  LET entry == c.oldest IN
  IF entry = Undefined THEN [cache |-> c, ret |-> <<>>]
  ELSE
    LET c1 == IF c.heap[c.oldest].newer # Undefined
              THEN [c EXCEPT !.oldest = c.heap[c.oldest].newer]
              ELSE [c EXCEPT !.oldest = Undefined, !.newest = Undefined]
        c2 == [c1 EXCEPT !.heap[entry].newer = Undefined]
        c3 == [c2 EXCEPT !.keymap[c2.heap[entry].key] = Undefined]
        c4 == [c3 EXCEPT !.size = c3.size - 1]
    IN [cache |-> c4, ret |-> <<c4.heap[entry].key, c4.heap[entry].value>>]

\* variant: size is not decremented
shift_keepSize(c) ==
  LET entry == c.oldest IN
  IF entry = Undefined THEN [cache |-> c, ret |-> <<>>]
  ELSE
    LET c1 == IF c.heap[c.oldest].newer # Undefined
              THEN LET a == [c EXCEPT !.oldest = c.heap[c.oldest].newer]
                   IN [a EXCEPT !.heap[a.oldest].older = Undefined]
              ELSE [c EXCEPT !.oldest = Undefined, !.newest = Undefined]
        c2 == [c1 EXCEPT !.heap[entry].newer = Undefined, !.heap[entry].older = Undefined]
        c3 == [c2 EXCEPT !.keymap[c2.heap[entry].key] = Undefined]
    IN [cache |-> c3, ret |-> <<c3.heap[entry].key, c3.heap[entry].value>>]

shift(c) ==
  LET entry == c.oldest IN
  IF entry = Undefined THEN [cache |-> c, ret |-> <<>>]
  ELSE
    LET c1 == IF c.heap[c.oldest].newer # Undefined
              THEN LET a == [c EXCEPT !.oldest = c.heap[c.oldest].newer]
                   IN [a EXCEPT !.heap[a.oldest].older = Undefined]
              ELSE [c EXCEPT !.oldest = Undefined, !.newest = Undefined]
        c2 == [c1 EXCEPT !.heap[entry].newer = Undefined, !.heap[entry].older = Undefined]
        c3 == [c2 EXCEPT !.keymap[c2.heap[entry].key] = Undefined]
        c4 == [c3 EXCEPT !.size = c3.size - 1]
    IN [cache |-> c4, ret |-> <<c4.heap[entry].key, c4.heap[entry].value>>]

\* ---- set ----
\* variant: an existing entry is promoted but keeps its old value
set_keepValue(c, key, value) ==
  LET entry == c.keymap[key] IN
  IF entry # Undefined
  THEN markEntryAsUsed(c, entry)
  ELSE
    LET e == FreeId(c.heap)
        c1 == [c EXCEPT !.heap[e] = Entry(key, value), !.keymap[key] = e]
        c2 == IF c1.newest # Undefined
              THEN LET a == [c1 EXCEPT !.heap[c1.newest].newer = e]
                   IN [a EXCEPT !.heap[e].older = a.newest]
              ELSE [c1 EXCEPT !.oldest = e]
        c3 == [c2 EXCEPT !.newest = e]
        c4 == [c3 EXCEPT !.size = c3.size + 1]
    IN IF c4.size > c4.limit THEN shift(c4).cache ELSE c4

\* variant: a new entry never evicts
set_noEvict(c, key, value) ==
  LET entry == c.keymap[key] IN
  IF entry # Undefined
  THEN markEntryAsUsed([c EXCEPT !.heap[entry].value = value], entry)
  ELSE
    LET e == FreeId(c.heap)
        c1 == [c EXCEPT !.heap[e] = Entry(key, value), !.keymap[key] = e]
        c2 == IF c1.newest # Undefined
              THEN LET a == [c1 EXCEPT !.heap[c1.newest].newer = e]
                   IN [a EXCEPT !.heap[e].older = a.newest]
              ELSE [c1 EXCEPT !.oldest = e]
        c3 == [c2 EXCEPT !.newest = e]
    IN [c3 EXCEPT !.size = c3.size + 1]

\* variant: an existing entry gets the new value but is not promoted
set_noPromote(c, key, value) ==
  LET entry == c.keymap[key] IN
  IF entry # Undefined
  THEN [c EXCEPT !.heap[entry].value = value]
  ELSE
    LET e == FreeId(c.heap)
        c1 == [c EXCEPT !.heap[e] = Entry(key, value), !.keymap[key] = e]
        c2 == IF c1.newest # Undefined
              THEN LET a == [c1 EXCEPT !.heap[c1.newest].newer = e]
                   IN [a EXCEPT !.heap[e].older = a.newest]
              ELSE [c1 EXCEPT !.oldest = e]
        c3 == [c2 EXCEPT !.newest = e]
        c4 == [c3 EXCEPT !.size = c3.size + 1]
    IN IF c4.size > c4.limit THEN shift(c4).cache ELSE c4

set(c, key, value) ==
  LET entry == c.keymap[key] IN
  IF entry # Undefined
  THEN markEntryAsUsed([c EXCEPT !.heap[entry].value = value], entry)
  ELSE
    LET e == FreeId(c.heap)
        c1 == [c EXCEPT !.heap[e] = Entry(key, value), !.keymap[key] = e]
        c2 == IF c1.newest # Undefined
              THEN LET a == [c1 EXCEPT !.heap[c1.newest].newer = e]
                   IN [a EXCEPT !.heap[e].older = a.newest]
              ELSE [c1 EXCEPT !.oldest = e]
        c3 == [c2 EXCEPT !.newest = e]
        c4 == [c3 EXCEPT !.size = c3.size + 1]
    IN IF c4.size > c4.limit THEN shift(c4).cache ELSE c4

\* ---- has / find: peek without registering use ----
has(c, key) == c.keymap[key] # Undefined

find(c, key) ==
  LET e == c.keymap[key] IN
  IF e # Undefined THEN <<c.heap[e].value>> ELSE <<>>

\* ---- delete ----
\* variant: an interior entry is unlinked from its older neighbour only
delete_halfRelink(c, key) ==
  LET entry == c.keymap[key] IN
  IF entry = Undefined THEN [cache |-> c, ret |-> <<>>]
  ELSE
    LET c1 == [c EXCEPT !.keymap[c.heap[entry].key] = Undefined]
        nw == c1.heap[entry].newer
        od == c1.heap[entry].older
        c2 == IF nw # Undefined /\ od # Undefined
              THEN [c1 EXCEPT !.heap[od].newer = c1.heap[entry].newer]
              ELSE IF nw # Undefined
              THEN LET a == [c1 EXCEPT !.heap[nw].older = Undefined]
                   IN [a EXCEPT !.oldest = a.heap[entry].newer]
              ELSE IF od # Undefined
              THEN LET a == [c1 EXCEPT !.heap[od].newer = Undefined]
                   IN [a EXCEPT !.newest = a.heap[entry].older]
              ELSE [c1 EXCEPT !.oldest = Undefined, !.newest = Undefined]
        c3 == [c2 EXCEPT !.size = c2.size - 1]
    IN [cache |-> c3, ret |-> <<c3.heap[entry].value>>]

\* variant: size is not decremented
delete_keepSize(c, key) ==
  LET entry == c.keymap[key] IN
  IF entry = Undefined THEN [cache |-> c, ret |-> <<>>]
  ELSE
    LET c1 == [c EXCEPT !.keymap[c.heap[entry].key] = Undefined]
        nw == c1.heap[entry].newer
        od == c1.heap[entry].older
        c2 == IF nw # Undefined /\ od # Undefined
              THEN LET a == [c1 EXCEPT !.heap[od].newer = c1.heap[entry].newer]
                   IN [a EXCEPT !.heap[a.heap[entry].newer].older = a.heap[entry].older]
              ELSE IF nw # Undefined
              THEN LET a == [c1 EXCEPT !.heap[nw].older = Undefined]
                   IN [a EXCEPT !.oldest = a.heap[entry].newer]
              ELSE IF od # Undefined
              THEN LET a == [c1 EXCEPT !.heap[od].newer = Undefined]
                   IN [a EXCEPT !.newest = a.heap[entry].older]
              ELSE [c1 EXCEPT !.oldest = Undefined, !.newest = Undefined]
    IN [cache |-> c2, ret |-> <<c2.heap[entry].value>>]

delete(c, key) ==
  LET entry == c.keymap[key] IN
  IF entry = Undefined THEN [cache |-> c, ret |-> <<>>]
  ELSE
    LET c1 == [c EXCEPT !.keymap[c.heap[entry].key] = Undefined]
        nw == c1.heap[entry].newer
        od == c1.heap[entry].older
        c2 == IF nw # Undefined /\ od # Undefined
              THEN LET a == [c1 EXCEPT !.heap[od].newer = c1.heap[entry].newer]
                   IN [a EXCEPT !.heap[a.heap[entry].newer].older = a.heap[entry].older]
              ELSE IF nw # Undefined
              THEN LET a == [c1 EXCEPT !.heap[nw].older = Undefined]
                   IN [a EXCEPT !.oldest = a.heap[entry].newer]
              ELSE IF od # Undefined
              THEN LET a == [c1 EXCEPT !.heap[od].newer = Undefined]
                   IN [a EXCEPT !.newest = a.heap[entry].older]
              ELSE [c1 EXCEPT !.oldest = Undefined, !.newest = Undefined]
        c3 == [c2 EXCEPT !.size = c2.size - 1]
    IN [cache |-> c3, ret |-> <<c3.heap[entry].value>>]

\* ---- clear ----
\* variant: the head of the list is kept
clear_keepOldest(c) ==
  [c EXCEPT !.newest = Undefined, !.size = 0, !.keymap = [k \in Keys |-> Undefined]]

clear(c) ==
  [c EXCEPT !.oldest = Undefined, !.newest = Undefined, !.size = 0,
            !.keymap = [k \in Keys |-> Undefined]]

\* ---- assign ----
\* `limit--` on a float: Number.MAX_VALUE - 1 rounds back to Number.MAX_VALUE
PostDecrement(lim) == IF lim = MAX_VALUE THEN MAX_VALUE ELSE lim - 1

\* variant: the countdown is decremented before it is compared (--limit === 0)
RECURSIVE assignLoop_preDecrement(_, _, _, _, _)
assignLoop_preDecrement(c, entries, i, entry, lim) ==
  IF i > Len(entries) THEN [cache |-> c, entry |-> entry, threw |-> FALSE]
  ELSE
    LET e == FreeId(c.heap)
        c1 == [c EXCEPT !.heap[e] = Entry(entries[i][1], entries[i][2])]
        c2 == [c1 EXCEPT !.keymap[c1.heap[e].key] = e]
        c3 == IF entry = Undefined
              THEN [c2 EXCEPT !.oldest = e]
              ELSE LET a == [c2 EXCEPT !.heap[entry].newer = e]
                   IN [a EXCEPT !.heap[e].older = entry]
    IN IF PostDecrement(lim) = 0
       THEN [cache |-> c3, entry |-> e, threw |-> TRUE]
       ELSE assignLoop_preDecrement(c3, entries, i + 1, e, PostDecrement(lim))

\* the for loop of assign; entry is the previously created Entry, lim the countdown
RECURSIVE assignLoop(_, _, _, _, _)
assignLoop(c, entries, i, entry, lim) ==
  IF i > Len(entries) THEN [cache |-> c, entry |-> entry, threw |-> FALSE]
  ELSE
    LET e == FreeId(c.heap)
        c1 == [c EXCEPT !.heap[e] = Entry(entries[i][1], entries[i][2])]
        c2 == [c1 EXCEPT !.keymap[c1.heap[e].key] = e]
        c3 == IF entry = Undefined
              THEN [c2 EXCEPT !.oldest = e]
              ELSE LET a == [c2 EXCEPT !.heap[entry].newer = e]
                   IN [a EXCEPT !.heap[e].older = entry]
    IN IF lim = 0
       THEN [cache |-> c3, entry |-> e, threw |-> TRUE]
       ELSE assignLoop(c3, entries, i + 1, e, PostDecrement(lim))

\* variant: size is not recomputed from the index
assign_keepSize(c, entries) ==
  LET lim == IF c.limit # 0 THEN c.limit ELSE MAX_VALUE
      c1 == [c EXCEPT !.keymap = [k \in Keys |-> Undefined]]
      r == assignLoop(c1, entries, 1, Undefined, lim)
  IN IF r.threw
     THEN [cache |-> r.cache, threw |-> TRUE]
     ELSE [cache |-> [r.cache EXCEPT !.newest = r.entry], threw |-> FALSE]

assign(c, entries) ==
  LET lim == IF c.limit # 0 THEN c.limit ELSE MAX_VALUE
      c1 == [c EXCEPT !.keymap = [k \in Keys |-> Undefined]]
      r == assignLoop(c1, entries, 1, Undefined, lim)
  IN IF r.threw
     THEN [cache |-> r.cache, threw |-> TRUE]
     ELSE LET c2 == [r.cache EXCEPT !.newest = r.entry]
          IN [cache |-> [c2 EXCEPT !.size = Cardinality(KeySet(c2))], threw |-> FALSE]

\* ---- constructor(limit?, entries?) ----
\* given = FALSE stands for an omitted `entries` argument
\* variant: the limit is never inferred from the entries
construct_keepLimit(limitArg, given, entries) ==
  LET c0 == [heap |-> [i \in Ids |-> Blank], keymap |-> [k \in Keys |-> Undefined],
             size |-> 0, limit |-> limitArg, oldest |-> Undefined, newest |-> Undefined]
  IN IF ~given THEN [cache |-> c0, threw |-> FALSE]
     ELSE assign(c0, entries)

construct(limitArg, given, entries) ==
  LET c0 == [heap |-> [i \in Ids |-> Blank], keymap |-> [k \in Keys |-> Undefined],
             size |-> 0, limit |-> limitArg, oldest |-> Undefined, newest |-> Undefined]
  IN IF ~given THEN [cache |-> c0, threw |-> FALSE]
     ELSE LET r == assign(c0, entries)
          IN IF r.threw THEN r
             ELSE [cache |-> IF r.cache.limit < 1
                             THEN [r.cache EXCEPT !.limit = r.cache.size]
                             ELSE r.cache,
                   threw |-> FALSE]


\* the entry that the shift called by set removes (Undefined when set calls no shift)
evicted(c, key) ==
  IF c.keymap[key] # Undefined \/ c.size + 1 <= c.limit THEN Undefined
  ELSE IF c.newest # Undefined THEN c.oldest ELSE FreeId(c.heap)

\* ---- KeyIterator / ValueIterator / EntryIterator ----
\* The object's state is `entry` (and its class, `kind`).  The other fields are
\* history: out = the values of the results that were not done, seen = the keys
\* of the entries they came from, n = size when the iterator was made, ended =
\* some next() reported done, late = a next() yielded after one reported done,
\* ahead / behind = a get hit a key not yet yielded / already yielded.
Kinds == {"keys", "values", "entries"}

NoIterator ==
  [kind |-> "none", entry |-> Undefined, out |-> <<>>, seen |-> <<>>, n |-> 0,
   ended |-> FALSE, late |-> FALSE, ahead |-> FALSE, behind |-> FALSE]

\* keys(), values(), [Symbol.iterator]() (entries() hands out the map itself,
\* whose [Symbol.iterator]() is this one)
newIterator(c, kind) == [NoIterator EXCEPT !.kind = kind, !.entry = c.oldest, !.n = c.size]

\* the `value` of a result that is not done
Yield(kind, e) ==
  IF kind = "keys" THEN <<e.key>>
  ELSE IF kind = "values" THEN <<e.value>>
  ELSE <<e.key, e.value>>

\* variant: the iterator does not advance
next_stay(h, iter) ==
  LET ent == iter.entry IN
  IF ent # Undefined
  THEN [iter |-> [iter EXCEPT !.out = Append(@, Yield(iter.kind, h[ent])),
                              !.seen = Append(@, h[ent].key),
                              !.late = iter.ended],
        done |-> FALSE, value |-> Yield(iter.kind, h[ent])]
  ELSE [iter |-> [iter EXCEPT !.ended = TRUE], done |-> TRUE, value |-> <<>>]

next(h, iter) ==
  LET ent == iter.entry IN
  IF ent # Undefined
  THEN [iter |-> [iter EXCEPT !.entry = h[ent].newer,
                              !.out = Append(@, Yield(iter.kind, h[ent])),
                              !.seen = Append(@, h[ent].key),
                              !.late = iter.ended],
        done |-> FALSE, value |-> Yield(iter.kind, h[ent])]
  ELSE [iter |-> [iter EXCEPT !.ended = TRUE], done |-> TRUE, value |-> <<>>]

\* a get between two next() calls, noted in the iterator's history
NoteGet(iter, key, hit) ==
  IF iter.kind = "none" \/ ~hit THEN iter
  ELSE IF \E i \in 1..Len(iter.seen) : iter.seen[i] = key
       THEN [iter EXCEPT !.behind = TRUE]
       ELSE [iter EXCEPT !.ahead = TRUE]

\* ---- object identity and garbage collection ----
\* Entries are told apart only by reference equality, and an Entry nothing refers to
\* any more is reclaimed.  Normalize renames the entries reachable from the map
\* (oldest, newest, the index, then links) in visiting order and blanks the others.
RECURSIVE Visit(_, _, _)
Visit(h, order, todo) ==
  IF todo = <<>> THEN order
  ELSE LET x == Head(todo) IN
       IF x = Undefined \/ \E i \in 1..Len(order) : order[i] = x
       THEN Visit(h, order, Tail(todo))
       ELSE Visit(h, Append(order, x), <<h[x].newer, h[x].older>> \o Tail(todo))

Normalize(c) ==
  LET order == Visit(c.heap, <<>>, <<c.oldest, c.newest>> \o [k \in Keys |-> c.keymap[k]])
      pos(x) == IF x = Undefined THEN Undefined
                ELSE CHOOSE i \in 1..Len(order) : order[i] = x
  IN [c EXCEPT !.heap = [i \in Ids |-> IF i <= Len(order)
                                       THEN [key |-> c.heap[order[i]].key,
                                             value |-> c.heap[order[i]].value,
                                             newer |-> pos(c.heap[order[i]].newer),
                                             older |-> pos(c.heap[order[i]].older)]
                                       ELSE Blank],
               !.keymap = [k \in Keys |-> pos(c.keymap[k])],
               !.oldest = pos(c.oldest),
               !.newest = pos(c.newest)]

\* the same with one more reference `ref` held from outside the map (an iterator's entry)
Renumber(c, ref) ==
  LET order == Visit(c.heap, <<>>,
                     <<c.oldest, c.newest>> \o [k \in Keys |-> c.keymap[k]] \o <<ref>>)
      pos(x) == IF x = Undefined THEN Undefined
                ELSE CHOOSE i \in 1..Len(order) : order[i] = x
  IN [cache |-> [c EXCEPT !.heap = [i \in Ids |-> IF i <= Len(order)
                                                  THEN [key |-> c.heap[order[i]].key,
                                                        value |-> c.heap[order[i]].value,
                                                        newer |-> pos(c.heap[order[i]].newer),
                                                        older |-> pos(c.heap[order[i]].older)]
                                                  ELSE Blank],
                          !.keymap = [k \in Keys |-> pos(c.keymap[k])],
                          !.oldest = pos(c.oldest),
                          !.newest = pos(c.newest)],
      ref |-> pos(ref)]

\* ---- the state machine ----
\* what a caller could observe right before the call
Snapshot(c) == [list |-> Entries(c), size |-> c.size, keys |-> KeySet(c), limit |-> c.limit]

NoSnapshot == [list |-> <<>>, size |-> 0, keys |-> {}, limit |-> 0]

Call(name, key, value, entries, ret, threw) ==
  [name |-> name, key |-> key, value |-> value, entries |-> entries,
   ret |-> ret, threw |-> threw]

\* size is a counter the list does not bound once assign has thrown: cap its drift
SizeBounded(c) == c.size >= -MaxDebt /\ c.size <= MaxLimit + MaxDebt

\* the entry object a call has just removed, as its holder sees it once the call
\* has returned: its key and the keys of the entries its two links still reference
NoRemoved == [key |-> Undefined, newer |-> Undefined, older |-> Undefined]

KeyAt(h, entry) == IF entry = Undefined THEN Undefined ELSE h[entry].key

RemovedView(c, entry) ==
  IF entry = Undefined THEN NoRemoved
  ELSE [key |-> c.heap[entry].key,
        newer |-> KeyAt(c.heap, c.heap[entry].newer),
        older |-> KeyAt(c.heap, c.heap[entry].older)]

\* ---- the keys touched, in the order of their last touch ----
\* kept (on = TRUE) along runs of set, get, find, has from construction; dropped
\* for good by the first delete, shift, clear or assign
NoTouches == [on |-> FALSE, order |-> <<>>]

Touch(t, o) ==
  IF ~t.on THEN t
  ELSE IF o.name = "set" \/ (o.name = "get" /\ o.ret # <<>>)
       THEN [t EXCEPT !.order = Append(SelectSeq(@, LAMBDA k : k # o.key), o.key)]
       ELSE IF o.name \in {"delete", "shift", "clear", "assign"} THEN NoTouches
       ELSE t

\* the state after a call: c the map, o the call, entry the entry it removed (or
\* Undefined), iter the outstanding iterator
CommitWith(c, o, entry, iter) ==
  LET n == Renumber(c, iter.entry) IN
  /\ SizeBounded(c)
  /\ heap' = n.cache.heap
  /\ keymap' = n.cache.keymap
  /\ size' = n.cache.size
  /\ limit' = n.cache.limit
  /\ oldest' = n.cache.oldest
  /\ newest' = n.cache.newest
  /\ op' = o
  /\ before' = Snapshot(This)
  /\ removed' = RemovedView(c, entry)
  /\ it' = [iter EXCEPT !.entry = n.ref]
  /\ touches' = Touch(touches, o)

Commit(c, o) == CommitWith(c, o, Undefined, it)

\* inputs of assign and of the constructor's `entries`
AssignKeys == 1..MaxAssignKey

AssignVals == 1..MaxAssignVal

InputSeqs == UNION {[1..n -> AssignKeys \X AssignVals] : n \in 0..MaxAssignLen}

DistinctKeys(entries) ==
  \A i, j \in 1..Len(entries) : entries[i][1] = entries[j][1] => i = j

ConstructedWith(l, given, entries, t) ==
  LET r == construct(l, given, entries) IN
  /\ ~r.threw
  /\ LET n == Normalize(r.cache) IN
     /\ heap = n.heap
     /\ keymap = n.keymap
     /\ size = n.size
     /\ limit = n.limit
     /\ oldest = n.oldest
     /\ newest = n.newest
  /\ op = Call("new", Undefined, l, IF given THEN entries ELSE <<>>, <<given>>, FALSE)
  /\ before = NoSnapshot
  /\ removed = NoRemoved
  /\ it = NoIterator
  /\ touches = t

Constructed(l, given, entries) == ConstructedWith(l, given, entries, NoTouches)

\* new LRUMap(l) and new LRUMap(l, entries) with pairwise distinct keys
Init ==
  \E l \in 0..MaxLimit, given \in BOOLEAN, entries \in InputSeqs :
    /\ given \/ entries = <<>>
    /\ DistinctKeys(entries)
    /\ Constructed(l, given, entries)

Set(key, value) ==
  /\ keymap[key] # Undefined \/ NumFree(heap) >= 1
  /\ CommitWith(set(This, key, value), Call("set", key, value, <<>>, <<>>, FALSE),
                evicted(This, key), it)

Get(key) ==
  LET r == get(This, key) IN
  CommitWith(r.cache, Call("get", key, Undefined, <<>>, r.ret, FALSE),
             Undefined, NoteGet(it, key, r.ret # <<>>))

\* variant: find registers the use as get does
Find_touch(key) ==
  Commit(get(This, key).cache, Call("find", key, Undefined, <<>>, find(This, key), FALSE))

Find(key) ==
  Commit(This, Call("find", key, Undefined, <<>>, find(This, key), FALSE))

Has(key) ==
  Commit(This, Call("has", key, Undefined, <<>>, <<has(This, key)>>, FALSE))

Delete(key) ==
  LET r == delete(This, key) IN
  CommitWith(r.cache, Call("delete", key, Undefined, <<>>, r.ret, FALSE), keymap[key], it)

Shift ==
  LET r == shift(This) IN
  CommitWith(r.cache, Call("shift", Undefined, Undefined, <<>>, r.ret, FALSE), oldest, it)

ForEach ==
  Commit(This, Call("forEach", Undefined, Undefined, <<>>, forEach(This), FALSE))

Clear ==
  Commit(clear(This), Call("clear", Undefined, Undefined, <<>>, <<>>, FALSE))

Assign(entries) ==
  /\ NumFree(heap) >= Len(entries)
  /\ LET r == assign(This, entries) IN
     Commit(r.cache, Call("assign", Undefined, Undefined, entries, <<>>, r.threw))

\* the single-entry operations
Next ==
  \/ \E key \in Keys, value \in Values : Set(key, value)
  \/ \E key \in Keys : Get(key)
  \/ \E key \in Keys : Find(key)
  \/ \E key \in Keys : Has(key)
  \/ \E key \in Keys : Delete(key)
  \/ Shift
  \/ Clear
  \/ ForEach

Spec == Init /\ [][Next]_vars

\* every public operation, assign included, on any constructor input
InitAssign ==
  \E l \in 0..MaxAssignLimit, given \in BOOLEAN, entries \in InputSeqs :
    /\ given \/ entries = <<>>
    /\ Constructed(l, given, entries)

NextAssign ==
  \/ \E key \in AssignKeys, value \in AssignVals : Set(key, value)
  \/ \E key \in AssignKeys : Get(key)
  \/ \E key \in AssignKeys : Find(key)
  \/ \E key \in AssignKeys : Has(key)
  \/ \E key \in AssignKeys : Delete(key)
  \/ Shift
  \/ Clear
  \/ \E entries \in InputSeqs : Assign(entries)

SpecAssign == InitAssign /\ [][NextAssign]_vars

\* ---- every public operation, on input the interface allows ----
\* assign with pairwise distinct keys that returns without throwing
AssignValid(entries) ==
  /\ DistinctKeys(entries)
  /\ ~assign(This, entries).threw
  /\ Assign(entries)

InitValid ==
  \E l \in 0..MaxAssignLimit, given \in BOOLEAN, entries \in InputSeqs :
    /\ given \/ entries = <<>>
    /\ DistinctKeys(entries)
    /\ Constructed(l, given, entries)

NextValid ==
  \/ \E key \in AssignKeys, value \in AssignVals : Set(key, value)
  \/ \E key \in AssignKeys : Get(key)
  \/ \E key \in AssignKeys : Find(key)
  \/ \E key \in AssignKeys : Has(key)
  \/ \E key \in AssignKeys : Delete(key)
  \/ Shift
  \/ Clear
  \/ \E entries \in InputSeqs : AssignValid(entries)

SpecValid == InitValid /\ [][NextValid]_vars

\* ---- runs of set, get, find, has on a map constructed without entries ----
InitTouch ==
  \E l \in 0..MaxLimit : ConstructedWith(l, FALSE, <<>>, [on |-> TRUE, order |-> <<>>])

NextTouch ==
  \/ \E key \in Keys, value \in Values : Set(key, value)
  \/ \E key \in Keys : Get(key)
  \/ \E key \in Keys : Find(key)
  \/ \E key \in Keys : Has(key)

SpecTouch == InitTouch /\ [][NextTouch]_vars

\* ---- iterators over a map that only lookups touch ----
IterKeys == 1..MaxIterKey

\* the maps iterated over hold key k with value IterValue(k)
IterValue(k) == ((k - 1) % MaxVal) + 1

IterSeqs ==
  UNION {[1..n -> {<<k, IterValue(k)>> : k \in IterKeys}] : n \in 0..MaxIterLen}

\* keys(), values(), [Symbol.iterator]()
NewIterator(kind) ==
  CommitWith(This, Call(kind, Undefined, Undefined, <<>>, <<>>, FALSE), Undefined,
             newIterator(This, kind))

\* next() on the outstanding iterator; op.ret is the value, <<>> when done
IterNext ==
  /\ it.kind # "none"
  /\ it.entry = Undefined \/ Len(it.out) < MaxYield
  /\ LET r == next(heap, it) IN
     CommitWith(This, Call("next", Undefined, Undefined, <<>>, r.value, FALSE), Undefined,
                r.iter)

InitIter ==
  \E l \in 0..MaxLimit, entries \in IterSeqs :
    /\ DistinctKeys(entries)
    /\ Constructed(l, TRUE, entries)

NextIter ==
  \/ \E kind \in Kinds : NewIterator(kind)
  \/ IterNext
  \/ \E key \in IterKeys : Get(key)

SpecIter == InitIter /\ [][NextIter]_vars

\* ======================= properties =======================
\* the entries oldest to newest, as [key, value] pairs
List == Entries(This)

Present(list, key) == \E i \in 1..Len(list) : list[i][1] = key

ValueIn(list, key) == list[CHOOSE i \in 1..Len(list) : list[i][1] = key][2]

Without(list, key) == SelectSeq(list, LAMBDA p : p[1] # key)

Last(list) == list[Len(list)]

Hit == op.key \in before.keys

\* the entries met from newest along OLDER
RECURSIVE ChainBack(_, _, _)
ChainBack(h, entry, fuel) ==
  IF entry = Undefined \/ fuel = 0 THEN <<>>
  ELSE <<entry>> \o ChainBack(h, h[entry].older, fuel - 1)

Reverse(ids) == [i \in 1..Len(ids) |-> ids[Len(ids) + 1 - i]]

\* oldest and newest are the two ends of one doubly linked list
EndsAgree ==
  LET ids == Chain(heap, oldest, MaxHeap + 1) IN
  IF ids = <<>>
  THEN oldest = Undefined /\ newest = Undefined
  ELSE /\ newest = ids[Len(ids)]
       /\ heap[oldest].older = Undefined
       /\ heap[newest].newer = Undefined
       /\ ChainBack(heap, newest, MaxHeap + 1) = Reverse(ids)

Unchanged == List = before.list /\ size = before.size /\ KeySet(This) = before.keys

\* ---- the abstract LRU cache: a list of pairs in order of last touch ----
RefSet(list, cap, key, value) ==
  LET l == Without(list, key) \o <<<<key, value>>>> IN
  IF Len(l) > cap THEN Tail(l) ELSE l

RefGet(list, key) ==
  IF Present(list, key) THEN Without(list, key) \o <<<<key, ValueIn(list, key)>>>> ELSE list

RefShift(list) == IF list = <<>> THEN <<>> ELSE Tail(list)

RefStep(list, cap, o) ==
  CASE o.name = "set" -> RefSet(list, cap, o.key, o.value)
    [] o.name = "get" -> RefGet(list, o.key)
    [] o.name = "delete" -> Without(list, o.key)
    [] o.name = "shift" -> RefShift(list)
    [] o.name = "clear" -> <<>>
    [] OTHER -> list

RefLookup(list, key) == IF Present(list, key) THEN <<ValueIn(list, key)>> ELSE <<>>

\* C1: whenever a set call returns, size <= limit (every operation, assign included)
CapacityAfterSet == op.name = "set" => size <= limit

\* C2: with limit >= 1, the list after construction is the supplied one and every
\* set, get, find, has, delete, shift, clear takes the list to the list the abstract
\* LRU cache computes from it; get and find return the value last set for the key
LRURefinement ==
  limit >= 1 =>
    /\ op.name = "new" => List = op.entries
    /\ op.name # "new" => List = RefStep(before.list, limit, op)
    /\ op.name \in {"get", "find"} => op.ret = RefLookup(before.list, op.key)

LRURefinementWitness ==
  /\ op.name = "get"
  /\ limit = 3
  /\ Len(before.list) = 3
  /\ before.list[1][1] = op.key
  /\ before.list[1][2] # before.list[2][2]

\* C3: set of an absent key on a full cache (size = limit >= 1) removes exactly the
\* oldest entry, appends the new pair as newest, keeps size = limit and keeps the
\* other entries in their order with their values
EvictionCorrect ==
  (op.name = "set" /\ ~Hit /\ before.size = before.limit /\ before.limit >= 1) =>
    /\ List = Tail(before.list) \o <<<<op.key, op.value>>>>
    /\ KeySet(This) = (before.keys \ {Head(before.list)[1]}) \cup {op.key}
    /\ size = limit
    /\ keymap[op.key] = newest
    /\ EndsAgree

EvictionWitness ==
  /\ op.name = "set" /\ ~Hit
  /\ before.size = before.limit
  /\ before.limit = 3
  /\ Len(before.list) = 3

\* C4: get of a present key returns its value and moves the entry to the newest end,
\* size, values and the order of the others unchanged; get of an absent key returns
\* undefined and changes nothing
GetCorrect ==
  op.name = "get" =>
    IF Hit
    THEN /\ op.ret = <<ValueIn(before.list, op.key)>>
         /\ List = Without(before.list, op.key) \o <<<<op.key, ValueIn(before.list, op.key)>>>>
         /\ keymap[op.key] = newest
         /\ size = before.size
         /\ KeySet(This) = before.keys
         /\ EndsAgree
         /\ Last(before.list)[1] = op.key => Unchanged
    ELSE op.ret = <<>> /\ Unchanged

GetWitness ==
  /\ op.name = "get" /\ Hit
  /\ Len(before.list) = 3
  /\ before.list[2][1] = op.key

\* C5: set of a present key replaces the value, makes the entry newest, keeps size and
\* evicts nothing, also on a full cache; set again of the only key keeps one entry
\* that is both oldest and newest
SetExistingCorrect ==
  (op.name = "set" /\ Hit) =>
    /\ List = Without(before.list, op.key) \o <<<<op.key, op.value>>>>
    /\ keymap[op.key] = newest
    /\ heap[newest].value = op.value
    /\ size = before.size
    /\ KeySet(This) = before.keys
    /\ EndsAgree
    /\ before.size = 1 => (size = 1 /\ oldest = newest)

SetExistingWitness ==
  /\ op.name = "set" /\ Hit
  /\ before.size = before.limit
  /\ Len(before.list) = 3
  /\ before.list[1][1] = op.key
  /\ before.list[1][2] # op.value

\* C6: delete of a present key (oldest, newest, interior or only entry) returns its
\* value, takes one off size, makes the key absent, keeps the others in order, and
\* leaves oldest / newest at the ends of what remains; delete of an absent key
\* returns undefined and changes nothing
DeleteCorrect ==
  op.name = "delete" =>
    IF Hit
    THEN /\ op.ret = <<ValueIn(before.list, op.key)>>
         /\ size = before.size - 1
         /\ KeySet(This) = before.keys \ {op.key}
         /\ List = Without(before.list, op.key)
         /\ Len(List) = Len(before.list) - 1
         /\ EndsAgree
    ELSE op.ret = <<>> /\ Unchanged

DeleteWitness ==
  /\ op.name = "delete" /\ Hit
  /\ Len(before.list) = 3
  /\ before.list[2][1] = op.key

\* C7: shift on a non-empty cache removes the oldest entry and returns its pair, takes
\* one off size and makes the next entry the oldest; on an empty cache it returns
\* undefined and changes nothing
ShiftCorrect ==
  op.name = "shift" =>
    IF before.list # <<>>
    THEN /\ op.ret = Head(before.list)
         /\ List = Tail(before.list)
         /\ size = before.size - 1
         /\ KeySet(This) = before.keys \ {Head(before.list)[1]}
         /\ EndsAgree
    ELSE op.ret = <<>> /\ Unchanged /\ before.size = 0

ShiftWitness ==
  /\ op.name = "shift"
  /\ Len(before.list) = 3

ShiftEmptyWitness ==
  /\ op.name = "shift"
  /\ before.list = <<>>
  /\ before.limit >= 1

\* C8: when assign returns without error on pairs with distinct keys, the cache holds
\* exactly the supplied pairs in the supplied order (first oldest, last newest),
\* none of the previous entries, size is their number and limit is unchanged
AssignReplacesAll ==
  (op.name = "assign" /\ ~op.threw /\ DistinctKeys(op.entries)) =>
    /\ List = op.entries
    /\ KeySet(This) = {op.entries[i][1] : i \in 1..Len(op.entries)}
    /\ size = Len(op.entries)
    /\ limit = before.limit
    /\ EndsAgree

\* C9: assign throws 'overflow' exactly when limit >= 1 and more than limit pairs are
\* supplied; with limit 0 it never throws
AssignOverflow ==
  op.name = "assign" =>
    (op.threw <=> (before.limit >= 1 /\ Len(op.entries) > before.limit))

AssignOverflowWitness ==
  /\ op.name = "assign"
  /\ op.threw
  /\ before.limit = 2
  /\ Len(op.entries) = 3
  /\ before.list # <<>>

\* C10: when assign throws, the cache is left empty: size 0, no key in the index,
\* oldest and newest unset
FailedAssignLeavesEmpty ==
  (op.name = "assign" /\ op.threw) =>
    /\ size = 0
    /\ KeySet(This) = {}
    /\ oldest = Undefined
    /\ newest = Undefined

\* C11: new LRUMap(limit, entries) with limit omitted or 0 and n pairs (of distinct
\* keys) has limit n and size n and is in the state new LRUMap(n, entries) is in;
\* no later set leaves more than limit entries
InferredLimit ==
  /\ (op.name = "new" /\ op.ret = <<TRUE>> /\ op.value = 0) =>
       LET n == Len(op.entries) IN
       /\ limit = n
       /\ size = n
       /\ List = op.entries
       /\ This = Normalize(construct(n, TRUE, op.entries).cache)
  /\ op.name = "set" => size <= limit /\ Len(List) <= limit

InferredLimitWitness ==
  /\ op.name = "new"
  /\ op.ret = <<TRUE>>
  /\ op.value = 0
  /\ Len(op.entries) = 2

\* C12: clear() leaves size 0, oldest and newest unset, no key in the index, nothing
\* to traverse and the limit as it was; the map is then in the very state of a map
\* newly constructed with that limit, so every later call behaves as on a new one
ClearResets ==
  op.name = "clear" =>
    /\ size = 0
    /\ oldest = Undefined
    /\ newest = Undefined
    /\ \A k \in Keys : ~has(This, k) /\ find(This, k) = <<>>
    /\ Entries(This) = <<>>
    /\ forEach(This) = <<>>
    /\ limit = before.limit
    /\ This = construct(limit, FALSE, <<>>).cache

\* a clear of a map whose size, index and list disagreed (after an assign that threw)
ClearResetsWitness ==
  /\ op.name = "clear"
  /\ before.list # <<>>
  /\ before.size # Len(before.list)
  /\ before.keys # {before.list[i][1] : i \in 1..Len(before.list)}

\* C13: find(k), has(k) and forEach (its visitor not calling the map) change no field
\* of the map and no entry; find(k) returns what get(k) would return, has(k) is true
\* exactly when find(k) hits, forEach visits the entries oldest first
PeekStep ==
  /\ op'.name \in {"find", "has", "forEach"} =>
       UNCHANGED <<heap, keymap, size, limit, oldest, newest>>
  /\ op'.name = "find" => op'.ret = get(This, op'.key).ret
  /\ op'.name = "has" => op'.ret = <<find(This, op'.key) # <<>>>>
  /\ op'.name = "forEach" => op'.ret = [i \in 1..Len(List) |-> <<List[i][2], List[i][1]>>]

PeekNoEffect == [][PeekStep]_vars

\* a find that hit the oldest of three entries, which a get would have moved
PeekNoEffectWitness ==
  /\ op.name = "find"
  /\ Len(List) = 3
  /\ op.key = List[1][1]
  /\ op.ret = <<List[1][2]>>

\* what an iterator of the given kind yields for the pair <<key, value>>
Item(kind, pair) == Yield(kind, [key |-> pair[1], value |-> pair[2]])

\* C14: with no get since it was made, an iterator of keys(), values() or
\* [Symbol.iterator]() on a map of n entries yields exactly the n keys, values or
\* pairs, oldest first, then reports done on every later next(); toJSON and forEach
\* give the same n entries in the same order
IterationInOrder ==
  /\ toJSON(This) = [i \in 1..Len(List) |-> [key |-> List[i][1], value |-> List[i][2]]]
  /\ forEach(This) = [i \in 1..Len(List) |-> <<List[i][2], List[i][1]>>]
  /\ (it.kind # "none" /\ ~it.ahead /\ ~it.behind) =>
       /\ it.n = Len(List)
       /\ Len(it.out) <= it.n
       /\ it.out = [i \in 1..Len(it.out) |-> Item(it.kind, List[i])]
       /\ (it.entry = Undefined) <=> (Len(it.out) = it.n)
       /\ it.ended => it.entry = Undefined /\ ~it.late

\* a values() iterator that gave three values and then reported done
IterationInOrderWitness ==
  /\ it.kind = "values"
  /\ ~it.ahead /\ ~it.behind
  /\ it.n = 3
  /\ Len(it.out) = 3
  /\ it.out[1] # it.out[2]
  /\ it.ended
  /\ op.name = "next"
  /\ op.ret = <<>>
  /\ before.list = List

NoRepeat(keys) == \A i, j \in 1..Len(keys) : keys[i] = keys[j] => i = j

\* C20: with get calls on present keys between its next() calls, an iterator on a
\* map of n entries yields at most n times, no key twice, and nothing after it
\* reported done
IterationEndsUnderGet ==
  it.kind # "none" =>
    /\ Len(it.seen) <= it.n
    /\ NoRepeat(it.seen)
    /\ ~it.late

\* the bound does hold as long as every get in between is on a key the iterator has
\* not yielded yet
IterationEndsUnderGetAhead ==
  (it.kind # "none" /\ ~it.behind) =>
    /\ Len(it.seen) <= it.n
    /\ NoRepeat(it.seen)
    /\ ~it.late
    /\ it.ended => it.entry = Undefined

\* get moved the entry the iterator stood on to the newest end: the iterator
\* yielded it and then reported done, one entry short of the three
IterationEndsUnderGetAheadWitness ==
  /\ it.kind = "keys"
  /\ it.ahead
  /\ ~it.behind
  /\ it.n = 3
  /\ Len(it.seen) = 2
  /\ it.seen[2] = List[3][1]
  /\ it.ended
  /\ op.name = "next"

\* the [key, value] arrays for the {key, value} objects of toJSON
AsPairs(objects) == [i \in 1..Len(objects) |-> <<objects[i].key, objects[i].value>>]

\* C15: assign of a map's snapshot (the entries iteration, or the objects of toJSON
\* turned into pairs) into a new map of the same limit does not throw and gives the
\* same oldest-to-newest list of pairs and the same size
RoundTrip ==
  LET fresh == construct(limit, FALSE, <<>>).cache
      r1 == assign(fresh, Entries(This))
      r2 == assign(fresh, AsPairs(toJSON(This)))
  IN /\ ~r1.threw
     /\ Entries(r1.cache) = List
     /\ r1.cache.size = size
     /\ Normalize(r1.cache) = This
     /\ r2 = r1

\* a full map of three entries that a get has just reordered
RoundTripWitness ==
  /\ size = 3
  /\ limit = 3
  /\ op.name = "get"
  /\ Hit
  /\ List # before.list

\* C16: without assign, after every call the keys of the index are the keys on the
\* chain from oldest along NEWER, each once and indexed to its own entry; the chain
\* ends at newest, the chain from newest along OLDER is its reverse, and size is the
\* chain length and the number of index keys
IndexMatchesSequence ==
  LET ids == Chain(heap, oldest, MaxHeap + 1) IN
  /\ KeySet(This) = {heap[ids[i]].key : i \in 1..Len(ids)}
  /\ NoRepeat([i \in 1..Len(ids) |-> heap[ids[i]].key])
  /\ \A i \in 1..Len(ids) : keymap[heap[ids[i]].key] = ids[i]
  /\ EndsAgree
  /\ size = Len(ids)
  /\ size = Cardinality(KeySet(This))

\* a delete took the middle one of three entries
IndexMatchesSequenceWitness ==
  /\ op.name = "delete"
  /\ Len(before.list) = 3
  /\ op.key = before.list[2][1]
  /\ size = 2

\* C17: after every completed call (construction with entries and assign calls that
\* return included), size = 0 implies oldest and newest are unset, and size = 1
\* implies oldest and newest are one entry that has no older and no newer link
EndpointInvariant ==
  /\ size = 0 => oldest = Undefined /\ newest = Undefined
  /\ size = 1 => /\ oldest # Undefined
                 /\ oldest = newest
                 /\ heap[oldest].older = Undefined
                 /\ heap[oldest].newer = Undefined

\* C18: on a map constructed with limit 0 and no entries, after set(k, v) the key k
\* is present and find(k) returns v
ZeroLimitUnbounded ==
  (op.name = "set" /\ before.limit = 0) =>
    /\ has(This, op.key)
    /\ find(This, op.key) = <<op.value>>

\* C18, amended: on such a map set(k, v) evicts the entry it has just inserted, so
\* after it k is absent, find(k) returns undefined and the map is empty as before
ZeroLimitHoldsNothing ==
  (op.name = "set" /\ before.limit = 0) =>
    /\ ~has(This, op.key)
    /\ find(This, op.key) = <<>>
    /\ removed.key = op.key
    /\ size = 0
    /\ List = <<>>
    /\ oldest = Undefined /\ newest = Undefined
    /\ limit = 0

ZeroLimitHoldsNothingWitness ==
  /\ op.name = "set"
  /\ before.limit = 0
  /\ before.list = <<>>
  /\ removed.key = op.key

\* C19: the entry removed by delete(k), by shift() or by the eviction inside set has
\* neither an older nor a newer link once the call has returned
RemovedUnlinked ==
  removed.key # Undefined => removed.newer = Undefined /\ removed.older = Undefined

\* shift and the eviction inside set do clear both links of the entry they remove
ShiftUnlinks ==
  (removed.key # Undefined /\ op.name \in {"shift", "set"}) =>
    removed.newer = Undefined /\ removed.older = Undefined

\* what the last call adds to and takes from the count of entries
Inserted == IF op.name = "set" /\ ~Hit THEN 1 ELSE 0

Evicted == IF op.name = "set" /\ removed.key # Undefined THEN 1 ELSE 0

Shifted == IF op.name = "shift" /\ op.ret # <<>> THEN 1 ELSE 0

Deleted == IF op.name = "delete" /\ op.ret # <<>> THEN 1 ELSE 0

\* C21: size never exceeds limit and is the number of distinct keys present; it is 0
\* after construction without entries, and each set, get, delete, shift changes it
\* by (1 if set inserted a new key) - (1 if set evicted) - (1 if shift removed) -
\* (1 if delete hit), so that size is the sum of these over the calls made
SizeAccounting ==
  /\ size <= limit
  /\ size = Cardinality(KeySet(This))
  /\ size = Len(List)
  /\ (op.name = "new" /\ op.ret = <<FALSE>>) => size = 0
  /\ op.name \in {"set", "get", "delete", "shift"} =>
       size = before.size + Inserted - Evicted - Shifted - Deleted

\* a set that inserted a new key into a full map of three and evicted one
SizeAccountingWitness ==
  /\ op.name = "set"
  /\ Inserted = 1
  /\ Evicted = 1
  /\ before.size = 3
  /\ size = 3

\* C22: with limit L >= 1, in a run of set, get, find and has only, a touched key is
\* present exactly when fewer than L distinct other keys have been touched since its
\* last touch (they are the keys after it in touches.order); no other key is present
RetentionBound ==
  (touches.on /\ limit >= 1) =>
    LET order == touches.order IN
    /\ \A i \in 1..Len(order) : has(This, order[i]) <=> (Len(order) - i < limit)
    /\ \A k \in Keys : has(This, k) => \E i \in 1..Len(order) : order[i] = k

\* four keys were touched on a map of limit 3: the set of the fourth has just
\* evicted the least recently touched one and kept the next
RetentionBoundWitness ==
  /\ touches.on
  /\ limit = 3
  /\ Len(touches.order) = 4
  /\ op.name = "set"
  /\ removed.key = touches.order[1]
  /\ before.list[1][1] = removed.key
  /\ has(This, touches.order[2])
  /\ touches.order[4] = op.key

====
